---- MODULE Spec2Model ----
(***************************************************************************)
(* APIWithTokenDataSet (kurkuma/extras/datasets/apitokendataset.py): a     *)
(* read-only data set that exchanges credentials for a token at            *)
(* <scheme>://<netloc>/token and then issues the configured request with   *)
(* an Authorization header.                                                *)
(*                                                                         *)
(* The operations are the methods of this class, _load, _save, _exists     *)
(* and _describe, which the load(), save(), exists() and describe() of     *)
(* kedro's AbstractDataSet call; what those wrappers add is not modelled.  *)
(*                                                                         *)
(* Text (str) is a sequence of one-character strings.  Python's None is    *)
(* the string "None".  The remote servers are the environment: every       *)
(* network call ends with one of the outcomes of TokenOutcomes /           *)
(* DataOutcomes.                                                           *)
(***************************************************************************)
EXTENDS Naturals, Sequences, FiniteSets, TLC

\* ------------------------------------------------------------------ bounds
NumThreads == 2
MaxCalls == 2
MaxMutations == 1

Threads == 1..NumThreads

\* -------------------------------------------------------------------- text
UPPER == <<"A","B","C","D","E","F","G","H","I","J","K","L","M",
           "N","O","P","Q","R","S","T","U","V","W","X","Y","Z">>
LOWER == <<"a","b","c","d","e","f","g","h","i","j","k","l","m",
           "n","o","p","q","r","s","t","u","v","w","x","y","z">>
DIGITS == {"0","1","2","3","4","5","6","7","8","9"}

isalpha(c) == \E i \in 1..26 : c = UPPER[i] \/ c = LOWER[i]

\* str.lower(), one character and a whole text
lower_char(c) == IF \E i \in 1..26 : c = UPPER[i]
                 THEN LOWER[CHOOSE i \in 1..26 : c = UPPER[i]]
                 ELSE c
lower(s) == [i \in 1..Len(s) |-> lower_char(s[i])]

\* str.find(c, start) on 1-based positions: the first position >= start
\* holding c, 0 when there is none (Python's -1)
find(s, c, start) ==
    IF \E i \in start..Len(s) : s[i] = c
    THEN CHOOSE i \in start..Len(s) :
             s[i] = c /\ \A j \in start..(i - 1) : s[j] # c
    ELSE 0

\* s[i:] for a 1-based position i
tail_from(s, i) == SubSeq(s, i, Len(s))

\* "sep".join(parts)
RECURSIVE join(_, _)
join(sep, parts) ==
    IF Len(parts) = 0 THEN <<>>
    ELSE IF Len(parts) = 1 THEN parts[1]
    ELSE parts[1] \o sep \o join(sep, Tail(parts))

\* ------------------------------------------------------------ urllib.parse
scheme_chars == {UPPER[i] : i \in 1..26} \cup {LOWER[i] : i \in 1..26}
                \cup DIGITS \cup {"+", "-", "."}

uses_netloc == {
    <<>>,
    <<"f","t","p">>,
    <<"h","t","t","p">>,
    <<"g","o","p","h","e","r">>,
    <<"n","n","t","p">>,
    <<"t","e","l","n","e","t">>,
    <<"i","m","a","p">>,
    <<"w","a","i","s">>,
    <<"f","i","l","e">>,
    <<"m","m","s">>,
    <<"h","t","t","p","s">>,
    <<"s","h","t","t","p">>,
    <<"s","n","e","w","s">>,
    <<"p","r","o","s","p","e","r","o">>,
    <<"r","t","s","p">>,
    <<"r","t","s","p","s">>,
    <<"r","t","s","p","u">>,
    <<"r","s","y","n","c">>,
    <<"s","v","n">>,
    <<"s","v","n","+","s","s","h">>,
    <<"s","f","t","p">>,
    <<"n","f","s">>,
    <<"g","i","t">>,
    <<"g","i","t","+","s","s","h">>,
    <<"w","s">>,
    <<"w","s","s">> }

\* url.lstrip(_WHATWG_C0_CONTROL_OR_SPACE): leading blanks are dropped
RECURSIVE lstrip(_)
lstrip(s) == IF Len(s) > 0 /\ s[1] \in {" ", "\t", "\n", "\r"}
             THEN lstrip(Tail(s)) ELSE s

\* for b in _UNSAFE_URL_BYTES_TO_REMOVE: url = url.replace(b, "")
remove_unsafe(s) == SelectSeq(s, LAMBDA c : c \notin {"\t", "\r", "\n"})

\* _splitnetloc(url, 2): the position of the first of "/", "?", "#" at or
\* after the third character, Len(url) + 1 when there is none
netloc_end(url) ==
    LET hits == {i \in 3..Len(url) : url[i] \in {"/", "?", "#"}}
    IN  IF hits = {} THEN Len(url) + 1
        ELSE CHOOSE i \in hits : \A j \in hits : i <= j

\* urlsplit(url): (scheme, netloc, path, query, fragment)
urlsplit(url0) ==
    LET url1 == remove_unsafe(lstrip(url0))
        i    == find(url1, ":", 1)
        sch  == i > 1 /\ isalpha(url1[1])
                /\ \A k \in 1..(i - 1) : url1[k] \in scheme_chars
        scheme == IF sch THEN lower(SubSeq(url1, 1, i - 1)) ELSE <<>>
        url2 == IF sch THEN tail_from(url1, i + 1) ELSE url1
        net  == Len(url2) >= 2 /\ url2[1] = "/" /\ url2[2] = "/"
        d    == netloc_end(url2)
        netloc == IF net THEN SubSeq(url2, 3, d - 1) ELSE <<>>
        url3 == IF net THEN tail_from(url2, d) ELSE url2
        h    == find(url3, "#", 1)
        fragment == IF h > 0 THEN tail_from(url3, h + 1) ELSE <<>>
        url4 == IF h > 0 THEN SubSeq(url3, 1, h - 1) ELSE url3
        q    == find(url4, "?", 1)
        query == IF q > 0 THEN tail_from(url4, q + 1) ELSE <<>>
        path == IF q > 0 THEN SubSeq(url4, 1, q - 1) ELSE url4
    IN  [scheme |-> scheme, netloc |-> netloc, path |-> path,
         query |-> query, fragment |-> fragment]

\* urlunsplit((scheme, netloc, url, query, fragment))
urlunsplit(scheme, netloc, path, query, fragment) ==
    LET slashes == Len(path) >= 2 /\ path[1] = "/" /\ path[2] = "/"
        url1 == IF netloc # <<>>
                   \/ (scheme # <<>> /\ scheme \in uses_netloc /\ ~slashes)
                THEN <<"/", "/">> \o netloc
                     \o (IF path # <<>> /\ path[1] # "/"
                         THEN <<"/">> \o path ELSE path)
                ELSE path
        url2 == IF scheme # <<>> THEN scheme \o <<":">> \o url1 ELSE url1
        url3 == IF query # <<>> THEN url2 \o <<"?">> \o query ELSE url2
    IN  IF fragment # <<>> THEN url3 \o <<"#">> \o fragment ELSE url3

\* the query and the fragment of the url are carried over
token_url_keeps_query(connection_url) ==
    urlunsplit(urlsplit(connection_url).scheme,
               urlsplit(connection_url).netloc,
               <<"t","o","k","e","n">>,
               urlsplit(connection_url).query,
               urlsplit(connection_url).fragment)

\* token_url = urlunsplit((urlsplit(connection_url).scheme,
\*                         urlsplit(connection_url).netloc, "token", "", ""))
token_url(connection_url) ==
    urlunsplit(urlsplit(connection_url).scheme,
               urlsplit(connection_url).netloc,
               <<"t","o","k","e","n">>, <<>>, <<>>)

\* ------------------------------------------------------------- exceptions
\* The bases of each exception class (its MRO without object):
\* requests.exceptions.RequestException derives from IOError, which is
\* OSError, and socket.error is OSError too.
mro(cls) ==
    CASE cls = "HTTPError" ->
             {"HTTPError", "RequestException", "OSError", "Exception"}
      [] cls = "ConnectionError" ->
             {"ConnectionError", "RequestException", "OSError", "Exception"}
      [] cls = "OSError" -> {"OSError", "Exception"}
      [] cls = "JSONDecodeError" ->
             {"JSONDecodeError", "ValueError", "Exception"}
      [] cls = "KeyError" -> {"KeyError", "LookupError", "Exception"}
      [] OTHER -> {cls, "Exception"}

issubclass(cls, base) == base \in mro(cls)

\* ------------------------------------------------------ values, outcomes
NoVal == [type |-> "None", status |-> 0, bool |-> FALSE, ref |-> 0]
RespVal(status) ==
    [type |-> "Response", status |-> status, bool |-> FALSE, ref |-> 0]
BoolVal(b) == [type |-> "bool", status |-> 0, bool |-> b, ref |-> 0]
RefVal(r) == [type |-> "dict", status |-> 0, bool |-> FALSE, ref |-> r]

\* how a call ended: it returned value, or it raised cls(msg[, cause])
NoOutcome ==
    [kind |-> "none", cls |-> "None", msg |-> <<>>, cause |-> "None",
     value |-> NoVal]
Return(v) ==
    [kind |-> "return", cls |-> "None", msg |-> <<>>, cause |-> "None",
     value |-> v]
Raise(cls, msg, cause) ==
    [kind |-> "raise", cls |-> cls, msg |-> msg, cause |-> cause,
     value |-> NoVal]

\* ------------------------------------------------------------ environment
\* What the token endpoint may answer: the call fails below HTTP (exc), or
\* an HTTP response with a status and a body (json: whether json.loads
\* accepts it; obj: the object it parses to).
Token1 == [token_type |-> <<"B","e","a","r","e","r">>,
           access_token |-> <<"a","b","c","1","2","3">>]
Token2 == [token_type |-> <<"M","A","C">>, access_token |-> <<"x","9">>]
NoType == [access_token |-> <<"a","b","c","1","2","3">>]
NoAccess == [token_type |-> <<"B","e","a","r","e","r">>]

NetworkErrors == {"ConnectionError", "OSError"}
NoBody == [json |-> FALSE, obj |-> NoType]

\* The status of the token response is never read, so it is paired with
\* the bodies that tell the cases apart: a token with a success status,
\* another token with an error status, a body lacking either key, and an
\* error page that is not JSON.
TokenResponses ==
    {[status |-> 200, content |-> [json |-> TRUE, obj |-> Token1]],
     [status |-> 401, content |-> [json |-> TRUE, obj |-> Token2]],
     [status |-> 200, content |-> [json |-> TRUE, obj |-> NoType]],
     [status |-> 401, content |-> [json |-> TRUE, obj |-> NoAccess]],
     [status |-> 500, content |-> NoBody]}
TokenOutcomes ==
    {[exc |-> e, status |-> 0, content |-> NoBody] : e \in NetworkErrors}
    \cup {[exc |-> "None", status |-> r.status, content |-> r.content] :
            r \in TokenResponses}

DataStatuses == {200, 304, 404, 500}
DataOutcomes ==
    {[exc |-> e, status |-> 0] : e \in NetworkErrors}
    \cup {[exc |-> "None", status |-> s] : s \in DataStatuses}
NoResponse == [exc |-> "None", status |-> 0]
NoTokenResponse == [exc |-> "None", status |-> 0, content |-> NoBody]

\* ------------------------------------------------------------ constructor
DefaultTimeout == 60
http_h == <<"h","t","t","p",":","/","/","h","/","a","?","q">>
HTTPS_h8 == <<"H","T","T","P","S",":","/","/","h",":","8","/","b","#","f">>

\* the arguments a data set is constructed with
CtorInputs ==
    {[url |-> http_h, method |-> "GET", data |-> "None", params |-> "None",
      auth |-> "None", timeout |-> DefaultTimeout, credentials |-> "None"],
     [url |-> HTTPS_h8, method |-> "POST", data |-> "payload",
      params |-> "page=1", auth |-> "basic", timeout |-> 5,
      credentials |-> "{username, password}"]}

RequestKeys == {"url", "method", "data", "params", "auth", "timeout"}

\* ------------------------------------------------------------------ state
VARIABLES
    ctor,        \* the arguments the constructor was called with
    self,        \* the instance's attributes: name -> value
    heap,        \* the dict objects: reference -> (key -> value)
    pc,          \* per thread: "idle", or the network call it waits in
    op,          \* per thread: the operation it is in or has ended
    arg,         \* per thread: the argument of its save()
    posts,       \* per thread: the token POSTs its operation has issued
    token_resp,  \* per thread: what the token endpoint answered
    requests,    \* per thread: the data requests its operation has issued
    response,    \* per thread: what the data endpoint answered
    outcome,     \* per thread: how its operation ended
    mutations,   \* per thread: changes its caller made to describe()'s dict
    n_ops,       \* operations started
    n_calls,     \* load() and exists() invocations started
    n_posts      \* token POSTs sent on the wire

vars == <<ctor, self, heap, pc, op, arg, posts, token_resp, requests,
          response, outcome, mutations, n_ops, n_calls, n_posts>>

\* the reference of self._request_args; thread t's describe() result is
\* held at DescribedRef(t)
ArgsRef == 1
DescribedRef(t) == 1 + t

\* __init__(url, method, data, params, auth, timeout, credentials)
__init__(a) ==
    /\ heap = [r \in {ArgsRef} |->
                 [url |-> a.url, method |-> a.method, data |-> a.data,
                  params |-> a.params, auth |-> a.auth,
                  timeout |-> a.timeout]]
    /\ self = [_request_args |-> ArgsRef, credentials |-> a.credentials]

Idle ==
    /\ pc = [t \in Threads |-> "idle"]
    /\ op = [t \in Threads |-> "none"]
    /\ arg = [t \in Threads |-> "None"]
    /\ posts = [t \in Threads |-> <<>>]
    /\ token_resp = [t \in Threads |-> NoTokenResponse]
    /\ requests = [t \in Threads |-> <<>>]
    /\ response = [t \in Threads |-> NoResponse]
    /\ outcome = [t \in Threads |-> NoOutcome]
    /\ mutations = [t \in Threads |-> 0]
    /\ n_ops = 0 /\ n_calls = 0 /\ n_posts = 0

Init == /\ ctor \in CtorInputs
        /\ __init__(ctor)
        /\ Idle

\* ------------------------------------------------------- _execute_request
\* the socket.error clause is missing
except_clauses_http_only(cls, detail) ==
    IF issubclass(cls, "HTTPError")
    THEN Raise("DataSetError", <<"Failed to fetch data">>, cls)
    ELSE Raise(cls, detail, "None")

\* except requests.exceptions.HTTPError as exc:
\*     raise DataSetError("Failed to fetch data", exc)
\* except socket.error:
\*     raise DataSetError("Failed to connect to the remote server")
\* and anything else leaves _execute_request as it is
except_clauses(cls, detail) ==
    IF issubclass(cls, "HTTPError")
    THEN Raise("DataSetError", <<"Failed to fetch data">>, cls)
    ELSE IF issubclass(cls, "OSError")
    THEN Raise("DataSetError",
               <<"Failed to connect to the remote server">>, "None")
    ELSE Raise(cls, detail, "None")

\* the two parts are joined without the blank
Authorization_concat(token_data) ==
    IF "token_type" \notin DOMAIN token_data
    THEN [err |-> "token_type", value |-> <<>>]
    ELSE IF "access_token" \notin DOMAIN token_data
    THEN [err |-> "access_token", value |-> <<>>]
    ELSE [err |-> "None",
          value |-> join(<<>>, <<token_data["token_type"],
                                 token_data["access_token"]>>)]

\* token_data.get(key, ""): a missing key reads as the empty text
Authorization_default(token_data) ==
    [err |-> "None",
     value |-> join(<<" ">>,
         <<IF "token_type" \in DOMAIN token_data
           THEN token_data["token_type"] ELSE <<>>,
           IF "access_token" \in DOMAIN token_data
           THEN token_data["access_token"] ELSE <<>> >>)]

\* ' '.join((token_data['token_type'], token_data['access_token'])):
\* err is the key whose lookup raises KeyError, "None" when both are there
Authorization(token_data) ==
    IF "token_type" \notin DOMAIN token_data
    THEN [err |-> "token_type", value |-> <<>>]
    ELSE IF "access_token" \notin DOMAIN token_data
    THEN [err |-> "access_token", value |-> <<>>]
    ELSE [err |-> "None",
          value |-> join(<<" ">>, <<token_data["token_type"],
                                    token_data["access_token"]>>)]

\* only the server errors raise
raise_for_status_server_only(status) == 500 <= status /\ status < 600

\* Response.raise_for_status(): whether it raises HTTPError
raise_for_status(status) == 400 <= status /\ status < 600

\* Response.ok: raise_for_status() does not raise
ok(status) == ~raise_for_status(status)

\* _load returns what _execute_request returns
_load(r) == r

\* _exists: response = self._execute_request(); return response.ok
_exists(r) ==
    IF r.kind = "return" THEN Return(BoolVal(ok(r.value.status))) ELSE r

\* the heap once thread t's caller has dropped the dict describe() gave it
forget(t) == [r \in DOMAIN heap \ {DescribedRef(t)} |-> heap[r]]

\* thread t enters operation name with argument a
enter(t, name, a) ==
    /\ pc[t] = "idle"
    /\ n_ops < MaxCalls
    /\ n_ops' = n_ops + 1
    /\ op' = [op EXCEPT ![t] = name]
    /\ arg' = [arg EXCEPT ![t] = a]
    /\ token_resp' = [token_resp EXCEPT ![t] = NoTokenResponse]
    /\ response' = [response EXCEPT ![t] = NoResponse]
    /\ mutations' = [mutations EXCEPT ![t] = 0]

\* _execute_request leaves with result r: the operation of t ends
finish(t, r) ==
    /\ pc' = [pc EXCEPT ![t] = "idle"]
    /\ outcome' = [outcome EXCEPT
                     ![t] = IF op'[t] = "exists" THEN _exists(r) ELSE _load(r)]

\* response = requests.request(**self._request_args, headers={...}):
\* the request goes out and the thread waits for its answer
send_request(t, authorization) ==
    /\ requests' = [requests EXCEPT
           ![t] = Append(@, [headers |-> [Authorization |-> authorization]]
                            @@ heap[self._request_args])]
    /\ pc' = [pc EXCEPT ![t] = "request"]
    /\ outcome' = [outcome EXCEPT ![t] = NoOutcome]

\* token reuse: a token another thread's operation obtained is used and
\* no token POST is made
_execute_request_reusing(t) ==
    LET have == {u \in Threads \ {t} :
                    /\ token_resp[u].exc = "None"
                    /\ token_resp[u].content.json
                    /\ Authorization(token_resp[u].content.obj).err = "None"}
    IN  IF have # {}
        THEN /\ posts' = [posts EXCEPT ![t] = <<>>]
             /\ requests' = [requests EXCEPT
                   ![t] = <<[headers |-> [Authorization |->
                        Authorization(token_resp[CHOOSE u \in have : TRUE]
                                          .content.obj).value]]
                            @@ heap[self._request_args]>>]
                      /\ pc' = [pc EXCEPT ![t] = "request"]
             /\ outcome' = [outcome EXCEPT ![t] = NoOutcome]
             /\ UNCHANGED <<self, n_posts>>
        ELSE /\ posts' = [posts EXCEPT ![t] =
                   <<[url |-> token_url(heap[self._request_args]["url"]),
                      data |-> self.credentials, verify |-> TRUE]>>]
             /\ requests' = [requests EXCEPT ![t] = <<>>]
             /\ n_posts' = n_posts + 1
             /\ pc' = [pc EXCEPT ![t] = "post"]
             /\ outcome' = [outcome EXCEPT ![t] = NoOutcome]
             /\ UNCHANGED self

\* _execute_request, to its first network call (lines 63-67):
\*   login_password = self.credentials
\*   connection_url = self._request_args['url']
\*   token_url = urlunsplit(...)
\*   requests.post(url=token_url, data=login_password, verify=True)
_execute_request(t) ==
    LET args == heap[self._request_args]
    IN  /\ requests' = [requests EXCEPT ![t] = <<>>]
        /\ UNCHANGED self
        /\ IF "url" \in DOMAIN args
           THEN /\ posts' = [posts EXCEPT ![t] =
                      <<[url |-> token_url(args["url"]),
                         data |-> self.credentials, verify |-> TRUE]>>]
                /\ n_posts' = n_posts + 1
                /\ pc' = [pc EXCEPT ![t] = "post"]
                /\ outcome' = [outcome EXCEPT ![t] = NoOutcome]
           ELSE /\ posts' = [posts EXCEPT ![t] = <<>>]
                /\ UNCHANGED n_posts
                /\ finish(t, except_clauses("KeyError", <<"url">>))

\* load(): _load() runs _execute_request
load(t) ==
    /\ enter(t, "load", "None")
    /\ n_calls' = n_calls + 1
    /\ heap' = forget(t)
    /\ _execute_request(t)
    /\ UNCHANGED ctor

\* exists(): _exists() runs _execute_request
exists(t) ==
    /\ enter(t, "exists", "None")
    /\ n_calls' = n_calls + 1
    /\ heap' = forget(t)
    /\ _execute_request(t)
    /\ UNCHANGED ctor

\* requests.post(...) returns or raises (line 67), the body is parsed, the
\* header is built and the data request is sent (lines 69-70)
post_returns(t) ==
    /\ pc[t] = "post"
    /\ UNCHANGED <<ctor, self, heap, op, arg, posts, response, mutations,
                   n_ops, n_calls, n_posts>>
    /\ \E o \in TokenOutcomes :
        /\ token_resp' = [token_resp EXCEPT ![t] = o]
        /\ IF o.exc # "None"
           THEN /\ finish(t, except_clauses(o.exc, <<>>))
                /\ UNCHANGED requests
           ELSE IF ~o.content.json
           THEN /\ finish(t, except_clauses("JSONDecodeError", <<>>))
                /\ UNCHANGED requests
           ELSE IF Authorization(o.content.obj).err # "None"
           THEN /\ finish(t, except_clauses("KeyError",
                                <<Authorization(o.content.obj).err>>))
                /\ UNCHANGED requests
           ELSE send_request(t, Authorization(o.content.obj).value)

\* requests.request(...) returns or raises (line 69), then
\* response.raise_for_status() (line 71) and return response (line 77)
request_returns(t) ==
    /\ pc[t] = "request"
    /\ UNCHANGED <<ctor, self, heap, op, arg, posts, token_resp, requests,
                   mutations, n_ops, n_calls, n_posts>>
    /\ \E o \in DataOutcomes :
        /\ response' = [response EXCEPT ![t] = o]
        /\ IF o.exc # "None"
           THEN finish(t, except_clauses(o.exc, <<>>))
           ELSE IF raise_for_status(o.status)
           THEN finish(t, except_clauses("HTTPError", <<>>))
           ELSE finish(t, Return(RespVal(o.status)))

\* ------------------------------------------------------------------ _save
class_name == "APIWithTokenDataSet"
SaveInputs == {"None", "rows"}

\* refuses only an empty input
_save_nonempty(data) ==
    IF data = "None"
    THEN Raise("DataSetError",
               <<class_name, " is a read only data set type">>, "None")
    ELSE Return(NoVal)

\* raise DataSetError("{} is a read only data set type".format(
\*     self.__class__.__name__))
_save(data) ==
    Raise("DataSetError", <<class_name, " is a read only data set type">>,
          "None")

save(t) ==
    \E data \in SaveInputs :
        /\ enter(t, "save", data)
        /\ outcome' = [outcome EXCEPT ![t] = _save(data)]
        /\ heap' = forget(t)
        /\ posts' = [posts EXCEPT ![t] = <<>>]
        /\ requests' = [requests EXCEPT ![t] = <<>>]
        /\ UNCHANGED <<ctor, self, pc, n_calls, n_posts>>

\* -------------------------------------------------------------- _describe
\* hands out the stored dict itself
_describe_alias(t) == [ref |-> self._request_args, heap |-> forget(t)]

\* return dict(**self._request_args): a new dict with the same items
_describe(t) ==
    [ref |-> DescribedRef(t),
     heap |-> [r \in {DescribedRef(t)} |-> heap[self._request_args]] @@ heap]

describe(t) ==
    /\ enter(t, "describe", "None")
    /\ outcome' = [outcome EXCEPT ![t] = Return(RefVal(_describe(t).ref))]
    /\ heap' = _describe(t).heap
    /\ posts' = [posts EXCEPT ![t] = <<>>]
    /\ requests' = [requests EXCEPT ![t] = <<>>]
    /\ UNCHANGED <<ctor, self, pc, n_calls, n_posts>>

\* What the caller of describe() may do to the dict it was given: add a
\* key, remove a key, bind a key to another value.
MutatedKeys == {"url"}
Rebound(k) == <<"x">>

caller_mutates(t) ==
    /\ pc[t] = "idle"
    /\ op[t] = "describe"
    /\ mutations[t] < MaxMutations
    /\ mutations' = [mutations EXCEPT ![t] = @ + 1]
    /\ LET r == outcome[t].value.ref
           d == heap[r]
       IN  \/ heap' = [heap EXCEPT ![r] = [extra |-> "added"] @@ d]
           \/ \E k \in MutatedKeys \cap DOMAIN d :
                 heap' = [heap EXCEPT
                            ![r] = [j \in DOMAIN d \ {k} |-> d[j]]]
           \/ \E k \in MutatedKeys \cap DOMAIN d :
                 heap' = [heap EXCEPT ![r] = [d EXCEPT ![k] = Rebound(k)]]
    /\ UNCHANGED <<ctor, self, pc, op, arg, posts, token_resp, requests,
                   response, outcome, n_ops, n_calls, n_posts>>

\* ---------------------------------------------------------- specification
Next ==
    \E t \in Threads :
        \/ load(t)
        \/ exists(t)
        \/ post_returns(t)
        \/ request_returns(t)
        \/ save(t)
        \/ describe(t)
        \/ caller_mutates(t)

Spec == Init /\ [][Next]_vars

\* ------------------------------------------- specification of the urls
\* The urls a data set may be configured with, written part by part: a
\* scheme (as written, and as urlsplit reports it), a network location, a
\* path, a query with its "?", a fragment with its "#".
Schemes ==
    {[written |-> <<"h","t","t","p">>, parsed |-> <<"h","t","t","p">>],
     [written |-> <<"H","T","T","P","S">>,
      parsed |-> <<"h","t","t","p","s">>],
     [written |-> <<"w","s">>, parsed |-> <<"w","s">>]}
Netlocs == {<<"h">>, <<"h",":","8">>, <<"u","@","H">>}
Paths == {<<>>, <<"/","a">>, <<"/","a",":","/","/","b">>}
Queries == {<<>>, <<"?","k","=","/","v">>}
Fragments == {<<>>, <<"#","f","?","x">>}

build(scheme, netloc, path, query, fragment) ==
    scheme \o <<":","/","/">> \o netloc \o path \o query \o fragment

UrlInputs ==
    {build(s.written, n, p, q, f) :
        s \in Schemes, n \in Netlocs, p \in Paths, q \in Queries,
        f \in Fragments}

InitUrl ==
    /\ ctor \in {[url |-> u, method |-> "GET", data |-> "None",
                  params |-> "None", auth |-> "None",
                  timeout |-> DefaultTimeout,
                  credentials |-> "{username, password}"] : u \in UrlInputs}
    /\ __init__(ctor)
    /\ Idle

\* one caller, loading and checking existence
NextUrl ==
    \/ load(1)
    \/ exists(1)
    \/ post_returns(1)
    \/ request_returns(1)

SpecUrl == InitUrl /\ [][NextUrl]_vars

\* ------------------------------------------------------------------ claims
IsCall(t) == op[t] \in {"load", "exists"}
Done(t) == pc[t] = "idle" /\ outcome[t].kind # "none"
CtorDict == [k \in RequestKeys |-> ctor[k]]
FetchError(o) ==
    /\ o.kind = "raise" /\ o.cls = "DataSetError"
    /\ o.msg = <<"Failed to fetch data">>
ConnectError(o) ==
    /\ o.kind = "raise" /\ o.cls = "DataSetError"
    /\ o.msg = <<"Failed to connect to the remote server">>
TokenAnswered(t) == token_resp[t].exc = "None" /\ token_resp[t].status # 0
DataAnswered(t) == response[t].exc = "None" /\ response[t].status # 0
TokenOf(t) == token_resp[t].content.obj
HeaderOf(tok) == tok.token_type \o <<" ">> \o tok.access_token

\* C1: when the token request or the data request is answered with an HTTP
\* error status (4xx/5xx), load() and exists() both end with the
\* data-resource error "Failed to fetch data" carrying the HTTP error.
C1_HttpErrorIsFetchError ==
    \A t \in Threads :
        (/\ IsCall(t) /\ Done(t)
         /\ \/ TokenAnswered(t) /\ token_resp[t].status >= 400
            \/ DataAnswered(t) /\ response[t].status >= 400)
        => FetchError(outcome[t]) /\ outcome[t].cause = "HTTPError"

\* C2: every load()/exists() makes its own token POST before its data
\* request, the data request carries the token that same operation was
\* given, as many token POSTs are sent as load()/exists() are started, and
\* the instance holds nothing but its request arguments and credentials.
C2_FreshTokenPerCall ==
    /\ n_posts = n_calls
    /\ DOMAIN self = {"_request_args", "credentials"}
    /\ self.credentials = ctor.credentials
    /\ self._request_args = ArgsRef
    /\ \A t \in Threads :
        IsCall(t) =>
            /\ Len(posts[t]) = 1
            /\ pc[t] = "post" => requests[t] = <<>>
            /\ requests[t] # <<>> =>
                /\ Len(requests[t]) = 1
                /\ TokenAnswered(t)
                /\ requests[t][1].headers.Authorization
                       = HeaderOf(TokenOf(t))

C2_Witness ==
    /\ n_calls = 2 /\ n_posts = 2
    /\ \E t, u \in Threads :
        /\ t # u /\ pc[t] = "request" /\ pc[u] = "request"
        /\ requests[t][1].headers.Authorization
               # requests[u][1].headers.Authorization

\* C3: when the connection cannot be established, in the token POST or in
\* the data request, load() and exists() end with the data-resource error
\* "Failed to connect to the remote server", with no cause attached.
C3_ConnectivityError ==
    \A t \in Threads :
        (/\ IsCall(t) /\ Done(t)
         /\ \/ token_resp[t].exc \in NetworkErrors
            \/ response[t].exc \in NetworkErrors)
        => ConnectError(outcome[t]) /\ outcome[t].cause = "None"

C3_Witness ==
    \E t, u \in Threads :
        /\ op[t] = "load" /\ Done(t) /\ token_resp[t].exc = "OSError"
        /\ ConnectError(outcome[t])
        /\ op[u] = "exists" /\ Done(u) /\ TokenAnswered(u)
        /\ response[u].exc = "ConnectionError"
        /\ ConnectError(outcome[u])

\* C4: save(data) ends with the read-only error "<type> is a read only
\* data set type" whatever the data and the state, sends no token POST and
\* no data request, and leaves request arguments and credentials alone.
C4_SaveIsReadOnly ==
    /\ n_posts = n_calls
    /\ heap[self._request_args] = CtorDict
    /\ self.credentials = ctor.credentials
    /\ \A t \in Threads :
        op[t] = "save" =>
            /\ pc[t] = "idle"
            /\ outcome[t].kind = "raise"
            /\ outcome[t].cls = "DataSetError"
            /\ outcome[t].msg = <<"APIWithTokenDataSet",
                                  " is a read only data set type">>
            /\ posts[t] = <<>> /\ requests[t] = <<>>

C4_Witness ==
    \E t, u \in Threads :
        /\ op[t] = "save" /\ arg[t] = "rows" /\ outcome[t].kind = "raise"
        /\ pc[u] = "request"
        /\ ctor.credentials # "None"

\* C5, as claimed: exists() returns a boolean derived from the status of
\* the data response, true on success and false (not an error) on a
\* status that is not ok, such as 404.
C5_ExistsReturnsBoolean ==
    \A t \in Threads :
        (op[t] = "exists" /\ Done(t) /\ DataAnswered(t))
        => outcome[t] = Return(BoolVal(response[t].status < 400))

\* C5, amended: exists() returns true when the status of the data response
\* is below 400, and ends with the data-resource error "Failed to fetch
\* data" (the HTTP error attached) when it is 4xx/5xx; it never returns
\* false.
C5_ExistsTrueOrRaises ==
    \A t \in Threads :
        (op[t] = "exists" /\ Done(t)) =>
            /\ outcome[t].kind = "return" => outcome[t].value = BoolVal(TRUE)
            /\ DataAnswered(t) =>
                IF response[t].status < 400
                THEN outcome[t] = Return(BoolVal(TRUE))
                ELSE /\ FetchError(outcome[t])
                     /\ outcome[t].cause = "HTTPError"

C5_Witness ==
    \E t, u \in Threads :
        /\ op[t] = "exists" /\ Done(t) /\ DataAnswered(t)
        /\ response[t].status = 404 /\ FetchError(outcome[t])
        /\ op[u] = "exists" /\ Done(u) /\ DataAnswered(u)
        /\ response[u].status = 304 /\ outcome[u].kind = "return"

\* C6: describe() returns a dict with exactly the keys url, method, data,
\* params, auth, timeout and the values given at construction, without the
\* credentials, and sends nothing; the dict is a copy: whatever its caller
\* adds, removes or rebinds in it, the request arguments stay as
\* constructed and later requests carry them.
C6_DescribeSnapshot ==
    /\ heap[self._request_args] = CtorDict
    /\ \A t \in Threads :
        /\ op[t] = "describe" =>
            /\ outcome[t].kind = "return"
            /\ outcome[t].value.type = "dict"
            /\ outcome[t].value.ref # self._request_args
            /\ outcome[t].value.ref \in DOMAIN heap
            /\ posts[t] = <<>> /\ requests[t] = <<>>
            /\ mutations[t] = 0 =>
                /\ DOMAIN heap[outcome[t].value.ref] = RequestKeys
                /\ \A k \in RequestKeys :
                       heap[outcome[t].value.ref][k] = ctor[k]
        /\ (IsCall(t) /\ requests[t] # <<>>) =>
               \A k \in RequestKeys : requests[t][1][k] = ctor[k]

C6_Witness ==
    \E t, u \in Threads :
        /\ op[t] = "describe" /\ mutations[t] = 1
        /\ ctor.credentials # "None"
        /\ "url" \notin DOMAIN heap[outcome[t].value.ref]
        /\ op[u] = "load" /\ pc[u] = "request"

\* C7: the token endpoint is the scheme of the url (as urlsplit reports
\* it, in lower case), "://", the network location of the url and
\* "/token", with no query and no fragment; urls that differ only in path,
\* query or fragment have the same token endpoint.
C7_TokenEndpoint ==
    \A t \in Threads :
        IsCall(t) =>
            \A s \in Schemes, n \in Netlocs, p \in Paths, q \in Queries,
               f \in Fragments :
                ctor.url = build(s.written, n, p, q, f) =>
                    /\ Len(posts[t]) = 1
                    /\ posts[t][1].url
                         = s.parsed \o <<":","/","/">> \o n
                             \o <<"/","t","o","k","e","n">>
                    /\ \A p2 \in Paths, q2 \in Queries, f2 \in Fragments :
                         token_url(build(s.written, n, p2, q2, f2))
                             = posts[t][1].url

C7_Witness ==
    \E t \in Threads :
        /\ op[t] = "exists" /\ Len(posts[t]) = 1
        /\ ctor.url = <<"H","T","T","P","S",":","/","/","h",":","8",
                        "/","a",":","/","/","b","?","k","=","/","v",
                        "#","f","?","x">>
        /\ posts[t][1].url = <<"h","t","t","p","s",":","/","/","h",":","8",
                               "/","t","o","k","e","n">>

\* C8: the data request carries the configured method, url, data, params,
\* auth and timeout and the one header Authorization, "<token_type>
\* <access_token>" of the token response of the same operation ("Bearer
\* abc123" for Bearer and abc123); the token POST carries the credentials
\* as its body and no timeout.
C8_RequestShape ==
    \A t \in Threads :
        IsCall(t) =>
            /\ \A i \in 1..Len(posts[t]) :
                /\ posts[t][i].data = ctor.credentials
                /\ "timeout" \notin DOMAIN posts[t][i]
            /\ \A i \in 1..Len(requests[t]) :
                /\ DOMAIN requests[t][i] = RequestKeys \cup {"headers"}
                /\ \A k \in RequestKeys : requests[t][i][k] = ctor[k]
                /\ DOMAIN requests[t][i].headers = {"Authorization"}
                /\ requests[t][i].headers.Authorization
                       = HeaderOf(TokenOf(t))
                /\ TokenOf(t) = Token1 =>
                       requests[t][i].headers.Authorization
                           = <<"B","e","a","r","e","r"," ",
                               "a","b","c","1","2","3">>

C8_Witness ==
    \E t \in Threads :
        /\ op[t] = "load" /\ Len(requests[t]) = 1 /\ TokenOf(t) = Token1
        /\ ctor.credentials = "{username, password}"
        /\ requests[t][1].timeout = 5
        /\ requests[t][1].headers.Authorization
               = <<"B","e","a","r","e","r"," ","a","b","c","1","2","3">>

\* C9: one load()/exists() sends at most one token POST and at most one
\* data request, the data request only once the token response is parsed,
\* and once a step has failed (an HTTP error status counts, as in C1) the
\* operation ends with an error and sends nothing more: a failed token
\* exchange is never followed by a data request.
TokenFailed(t) ==
    \/ token_resp[t].exc # "None"
    \/ TokenAnswered(t) /\ token_resp[t].status >= 400
    \/ TokenAnswered(t) /\ ~token_resp[t].content.json
    \/ TokenAnswered(t)
       /\ {"token_type", "access_token"} \ DOMAIN TokenOf(t) # {}
DataFailed(t) ==
    \/ response[t].exc # "None"
    \/ DataAnswered(t) /\ response[t].status >= 400

C9_NoRetryNoRecovery ==
    \A t \in Threads :
        IsCall(t) =>
            /\ Len(posts[t]) <= 1 /\ Len(requests[t]) <= 1
            /\ requests[t] # <<>> =>
                   TokenAnswered(t) /\ token_resp[t].content.json
            /\ TokenFailed(t) =>
                   /\ requests[t] = <<>>
                   /\ Done(t) /\ outcome[t].kind = "raise"
            /\ DataFailed(t) => Done(t) /\ outcome[t].kind = "raise"

\* C10: a token response whose body parses but lacks token_type or
\* access_token ends load()/exists() with the KeyError of that lookup, not
\* with a data-resource error, and no data request is sent.
C10_MalformedTokenResponse ==
    \A t \in Threads :
        (/\ IsCall(t) /\ TokenAnswered(t) /\ token_resp[t].content.json
         /\ {"token_type", "access_token"} \ DOMAIN TokenOf(t) # {})
        => /\ Done(t)
           /\ outcome[t].kind = "raise"
           /\ outcome[t].cls = "KeyError"
           /\ ~FetchError(outcome[t]) /\ ~ConnectError(outcome[t])
           /\ requests[t] = <<>>

C10_Witness ==
    \E t, u \in Threads :
        /\ op[t] = "load" /\ Done(t) /\ TokenAnswered(t)
        /\ TokenOf(t) = NoType /\ token_resp[t].content.json
        /\ outcome[t].msg = <<"token_type">>
        /\ op[u] = "exists" /\ Done(u) /\ TokenAnswered(u)
        /\ TokenOf(u) = NoAccess
        /\ outcome[u].msg = <<"access_token">>
====
